---- MODULE Spec2Model ----
(***************************************************************************)
(* A model of SmallVec (src/lib.rs): a vector that keeps up to A::size()   *)
(* elements inline and spills to a heap buffer beyond that.                *)
(*                                                                         *)
(* The container, the heap and the drop ledger are one record `s`; every   *)
(* method of the source is an operator from such a record to the record    *)
(* after the call, so that a method calling another (push -> reserve ->    *)
(* grow) is an operator applied inside another.  Raw memory is modelled    *)
(* slot by slot: a bitwise copy leaves its source slots as they were, an   *)
(* access outside a buffer or through a freed pointer sets `ub`, and the   *)
(* model stops at the first undefined behaviour.                           *)
(***************************************************************************)
EXTENDS Integers, Sequences, FiniteSets, TLC

\* ---------------------------------------------------------------- bounds
MaxInline == 2
\* A::size() ranges over 0..MaxInline
MaxElems == 4
\* element values are 1..MaxElems, each created at most once
UsizeBits == 4
\* width of usize in the model
MaxAllocs == 2
\* heap blocks that can be live at once (grow holds the old and the new one)
MaxCalls == 2
\* calls made on a container after its construction, its destruction aside
MaxItems == 2
\* items an iterator passed to extend or insert_many yields

Elem == 1..MaxElems
UsizeMax == 2^UsizeBits - 1
IsizeMax == UsizeMax \div 2

\* mem::uninitialized(): the content of a slot nothing was written to
Uninit == 0
\* Option::None
None == 0 - 1

VARIABLES
    N,          \* A::size(), the inline capacity of the array type
    capacity,   \* SmallVec.capacity
    data,       \* SmallVec.data: Inline(buf) or Heap(ptr, len)
    mem,        \* the heap: block id -> [live, cap, slots]
    drops,      \* element -> number of times its destructor ran
    ub,         \* undefined behaviour has been executed
    dfree,      \* a heap block was released that was not live
    mode,       \* "vec", "drain", "iter", "moved" (into_vec) or "dead"
    it,         \* the Drain's or IntoIter's buffer and two cursors, or the
                \* Vec made by into_vec: its buffer, length and capacity
    born,       \* the elements created so far
    calls,      \* the number of calls made on the container
    last        \* the last call: its name, arguments, outcome and the
                \* arguments of the calls it made to the caller's closure

vars == <<N, capacity, data, mem, drops, ub, dfree, mode, it, born, calls,
          last>>

\* ------------------------------------------------------- SmallVecData
Inline(buf) == [tag |-> "Inline", buf |-> buf]
Heap(ptr, len) == [tag |-> "Heap", ptr |-> ptr, len |-> len]

UninitBuf(n) == [i \in 1..n |-> Uninit]
NoBlock == [live |-> FALSE, cap |-> 0, slots |-> <<>>]

\* ------------------------------------------------------------- usize
checked_add(a, b) == IF a + b > UsizeMax THEN None ELSE a + b

RECURSIVE Pow2From(_, _)
Pow2From(p, n) == IF p >= n THEN p ELSE Pow2From(2 * p, n)

checked_next_power_of_two(n) ==
    IF n = None THEN None
    ELSE IF Pow2From(1, n) > UsizeMax THEN None ELSE Pow2From(1, n)

unwrap_or(o, d) == IF o = None THEN d ELSE o

\* --------------------------------------------------------- raw memory
\* The slots behind a pointer: 0 is the inline buffer, p > 0 a heap block.
\* Once the data is the Heap variant the inline buffer holds no element slots.
GetBuf(s, p) ==
    IF p # 0 THEN s.mem[p].slots
    ELSE IF s.data.tag = "Inline" THEN s.data.buf ELSE <<>>
SetBuf(s, p, b) ==
    IF p # 0 THEN [s EXCEPT !.mem[p].slots = b]
    ELSE IF s.data.tag = "Inline" THEN [s EXCEPT !.data.buf = b]
    ELSE [s EXCEPT !.ub = TRUE]
Usable(s, p) == IF p = 0 THEN s.data.tag = "Inline" ELSE s.mem[p].live

\* ptr.offset(i) read as a value; outside the buffer the value is indeterminate
ReadAt(b, i) == IF i < Len(b) THEN b[i + 1] ELSE Uninit

\* ptr::copy_nonoverlapping(src + so, dst + do, n), src and dst different buffers
copy_nonoverlapping(s, src, so, dst, do, n) ==
    LET from == GetBuf(s, src)
        to == GetBuf(s, dst)
        nb == [k \in 1..Len(to) |->
                 IF k - 1 >= do /\ k - 1 < do + n
                 THEN ReadAt(from, so + (k - 1 - do)) ELSE to[k]]
        s1 == SetBuf(s, dst, nb)
    IN  [s1 EXCEPT !.ub = s.ub \/ (n > 0 /\ (do + n > Len(to) \/ so + n > Len(from)))]

\* ptr::copy(p + so, p + do, n): a memmove inside one buffer
copy(s, p, so, do, n) ==
    LET b == GetBuf(s, p)
        nb == [k \in 1..Len(b) |->
                 IF k - 1 >= do /\ k - 1 < do + n
                 THEN ReadAt(b, so + (k - 1 - do)) ELSE b[k]]
        s1 == SetBuf(s, p, nb)
    IN  [s1 EXCEPT !.ub = s.ub \/ (n > 0 /\ (do + n > Len(b) \/ so + n > Len(b)))]

\* ptr::write(p + i, x)
write(s, p, i, x) ==
    IF i < Len(GetBuf(s, p))
    THEN SetBuf(s, p, [GetBuf(s, p) EXCEPT ![i + 1] = x])
    ELSE [s EXCEPT !.ub = TRUE]

\* running the destructor of the value x read from a slot; the destructors
\* of the elements in s.bomb panic
drop_in_place(s, x) ==
    IF x \in Elem
    THEN [s EXCEPT !.drops[x] = @ + 1, !.ub = s.ub \/ s.drops[x] >= 1,
                   !.panic = @ \/ x \in s.bomb]
    ELSE [s EXCEPT !.ub = TRUE]

\* the caller receives x by value and lets it go out of scope
TakenByCaller(s, x) == drop_in_place(s, x)

\* Vec::with_capacity(c) followed by mem::forget: a fresh block of c slots
FreeId(s) == CHOOSE p \in 1..MaxAllocs :
                 ~s.mem[p].live /\ \A q \in 1..(p - 1) : s.mem[q].live
allocate(s, p, c) ==
    [s EXCEPT !.mem[p] = [live |-> TRUE, cap |-> c, slots |-> UninitBuf(c)]]

deallocate(s, p, c) ==
    IF p > 0 /\ s.mem[p].live /\ s.mem[p].cap = c
    THEN [s EXCEPT !.mem[p] = NoBlock]
    ELSE [s EXCEPT !.dfree = TRUE, !.ub = TRUE]

Panic(s) == [s EXCEPT !.panic = TRUE]

\* ------------------------------------------------------------ SmallVec
spilled(s) == s.capacity > N

new == [capacity |-> 0, data |-> Inline(UninitBuf(N))]

\* (data ptr, len, capacity), read with one check of the storage variant
triple(s) ==
    IF spilled(s)
    THEN [ptr |-> s.data.ptr, len |-> s.data.len, cap |-> s.capacity]
    ELSE [ptr |-> 0, len |-> s.capacity, cap |-> N]

len(s) == triple(s).len
inline_size == N

set_len(s, new_len) ==
    IF spilled(s) THEN [s EXCEPT !.data.len = new_len]
    ELSE [s EXCEPT !.capacity = new_len]

\* grow without its assertion that new_cap >= len
grow_unchecked(s, new_cap) ==
    LET t == triple(s)
        unspilled == ~spilled(s)
    IN  IF new_cap <= inline_size
        THEN IF unspilled THEN s
             ELSE LET s1 == [s EXCEPT !.data = Inline(UninitBuf(N))]
                      s2 == copy_nonoverlapping(s1, t.ptr, 0, 0, 0, t.len)
                  IN  deallocate(s2, t.ptr, t.cap)
        ELSE IF new_cap # t.cap
        THEN IF new_cap > IsizeMax THEN Panic(s)
             ELSE LET p == FreeId(s)
                      s1 == allocate(s, p, new_cap)
                      s2 == copy_nonoverlapping(s1, t.ptr, 0, p, 0, t.len)
                      s3 == [s2 EXCEPT !.data = Heap(p, t.len),
                                       !.capacity = new_cap]
                  IN  IF unspilled THEN s3 ELSE deallocate(s3, t.ptr, t.cap)
        ELSE deallocate(s, t.ptr, t.cap)

grow(s, new_cap) ==
    LET t == triple(s)
        unspilled == ~spilled(s)
    IN  IF ~(new_cap >= t.len) THEN Panic(s)
        ELSE IF new_cap <= inline_size
        THEN IF unspilled THEN s
             ELSE LET s1 == [s EXCEPT !.data = Inline(UninitBuf(N))]
                      s2 == copy_nonoverlapping(s1, t.ptr, 0, 0, 0, t.len)
                  IN  deallocate(s2, t.ptr, t.cap)
        ELSE IF new_cap # t.cap
        THEN IF new_cap > IsizeMax THEN Panic(s)
             ELSE LET p == FreeId(s)
                      s1 == allocate(s, p, new_cap)
                      s2 == copy_nonoverlapping(s1, t.ptr, 0, p, 0, t.len)
                      s3 == [s2 EXCEPT !.data = Heap(p, t.len),
                                       !.capacity = new_cap]
                  IN  IF unspilled THEN s3 ELSE deallocate(s3, t.ptr, t.cap)
        ELSE deallocate(s, t.ptr, t.cap)

\* reserve without the test for spare room: always re-allocates to the
\* rounded len + additional
reserve_always_grows(s, additional) ==
    LET t == triple(s)
    IN  grow(s, unwrap_or(checked_next_power_of_two(
                          checked_add(t.len, additional)), UsizeMax))

reserve(s, additional) ==
    LET t == triple(s)
    IN  IF t.cap - t.len < additional
        THEN grow(s, unwrap_or(checked_next_power_of_two(
                               checked_add(t.len, additional)), UsizeMax))
        ELSE s

\* push that keeps the buffer pointer read before reserve(1)
push_stale_ptr(s, value) ==
    LET t == triple(s)
        s1 == IF t.len = t.cap THEN reserve(s, 1) ELSE s
    IN  IF s1.panic THEN s1
        ELSE write(set_len(s1, t.len + 1), t.ptr, t.len, value)

push(s, value) ==
    LET t == triple(s)
        s1 == IF t.len = t.cap THEN reserve(s, 1) ELSE s
    IN  IF s1.panic THEN s1
        ELSE write(set_len(s1, t.len + 1), triple(s1).ptr, t.len, value)

\* the slow path of push_light; cap is the capacity field
push_light_cold(s, cap, value) ==
    IF cap # N
    THEN IF s.data.tag # "Heap" THEN [s EXCEPT !.ub = TRUE]
         ELSE LET length == s.data.len
              IN  IF cap - length < 1
                  THEN IF cap > IsizeMax \div 2 THEN Panic(s)
                       ELSE LET s1 == grow(s, (cap * 2) % (UsizeMax + 1))
                            IN  IF s1.panic THEN s1
                                ELSE write([s1 EXCEPT !.data.len = length + 1],
                                           s1.data.ptr, length, value)
                  ELSE write([s EXCEPT !.data.len = length + 1],
                             s.data.ptr, length, value)
    ELSE LET new_cap == unwrap_or(checked_next_power_of_two(checked_add(N, 1)),
                                  UsizeMax)
             s1 == grow(s, new_cap)
         IN  IF s1.panic THEN s1
             ELSE IF s1.data.tag # "Heap" THEN [s1 EXCEPT !.ub = TRUE]
             ELSE write([s1 EXCEPT !.data.len = N + 1], s1.data.ptr, N, value)

\* push_light whose fast path also takes a full inline buffer
push_light_fast_when_full(s, value) ==
    IF s.capacity <= N
    THEN [write(s, 0, s.capacity, value) EXCEPT !.capacity = s.capacity + 1]
    ELSE push_light_cold(s, s.capacity, value)

push_light(s, value) ==
    IF s.capacity < N
    THEN [write(s, 0, s.capacity, value) EXCEPT !.capacity = s.capacity + 1]
    ELSE push_light_cold(s, s.capacity, value)

\* reserve_exact that rounds the new capacity up the way reserve does
reserve_exact_rounds(s, additional) == reserve(s, additional)

reserve_exact(s, additional) ==
    LET t == triple(s)
    IN  IF t.cap - t.len < additional
        THEN IF checked_add(t.len, additional) = None THEN Panic(s)
             ELSE grow(s, checked_add(t.len, additional))
        ELSE s

\* with_capacity that rounds the capacity up the way reserve does
with_capacity_rounds(s0, n) == reserve(s0, n)

with_capacity(s0, n) == reserve_exact(s0, n)

\* from_vec that goes by the Vec's length, not its capacity
from_vec_by_len(s0, vec) ==
    IF vec.len <= N
    THEN LET s1 == [s0 EXCEPT !.data = Inline(UninitBuf(N))]
             s2 == IF vec.len > 0
                   THEN copy_nonoverlapping(s1, vec.ptr, 0, 0, 0, vec.len)
                   ELSE s1
             s3 == [s2 EXCEPT !.capacity = vec.len]
         IN  IF vec.cap > 0 THEN deallocate(s3, vec.ptr, vec.cap) ELSE s3
    ELSE [s0 EXCEPT !.capacity = vec.cap, !.data = Heap(vec.ptr, vec.len)]

\* vec is the Vec handed over: [ptr, len, cap], its buffer a block of s0.mem
\* (no block when the Vec never allocated)
from_vec(s0, vec) ==
    IF vec.cap <= N
    THEN LET s1 == [s0 EXCEPT !.data = Inline(UninitBuf(N))]
             s2 == IF vec.len > 0
                   THEN copy_nonoverlapping(s1, vec.ptr, 0, 0, 0, vec.len)
                   ELSE s1
             s3 == [s2 EXCEPT !.capacity = vec.len]
         IN  IF vec.cap > 0 THEN deallocate(s3, vec.ptr, vec.cap) ELSE s3
    ELSE [s0 EXCEPT !.capacity = vec.cap, !.data = Heap(vec.ptr, vec.len)]

\* pop that runs the element's destructor before handing it out
pop_drops(s) ==
    LET t == triple(s)
        last_value == ReadAt(GetBuf(s, t.ptr), t.len - 1)
    IN  IF t.len = 0 THEN [s EXCEPT !.ret = None]
        ELSE [drop_in_place(set_len(s, t.len - 1), last_value) EXCEPT
                 !.ret = last_value]

pop(s) ==
    LET t == triple(s)
    IN  IF t.len = 0 THEN [s EXCEPT !.ret = None]
        ELSE [set_len(s, t.len - 1) EXCEPT
                 !.ret = ReadAt(GetBuf(s, t.ptr), t.len - 1)]

\* shrink_to_fit that moves back inline without storing the length in
\* the capacity field
shrink_to_fit_keeps_capacity(s) ==
    IF ~spilled(s) THEN s
    ELSE IF inline_size >= len(s)
    THEN LET ptr == s.data.ptr
             n == s.data.len
             s1 == [s EXCEPT !.data = Inline(UninitBuf(N))]
             s2 == copy_nonoverlapping(s1, ptr, 0, 0, 0, n)
         IN  deallocate(s2, ptr, s.capacity)
    ELSE IF triple(s).cap > len(s) THEN grow(s, len(s))
    ELSE s

shrink_to_fit(s) ==
    IF ~spilled(s) THEN s
    ELSE IF inline_size >= len(s)
    THEN LET ptr == s.data.ptr
             n == s.data.len
             s1 == [s EXCEPT !.data = Inline(UninitBuf(N))]
             s2 == copy_nonoverlapping(s1, ptr, 0, 0, 0, n)
             s3 == deallocate(s2, ptr, s.capacity)
         IN  [s3 EXCEPT !.capacity = n]
    ELSE IF triple(s).cap > len(s) THEN grow(s, len(s))
    ELSE s

\* truncate that shortens the length without dropping the tail
truncate_forgets_tail(s, n) == IF n < len(s) THEN set_len(s, n) ELSE s

RECURSIVE truncate_drops_first(_, _)
\* truncate that shortens the length only after the destructor has returned
truncate_drops_first(s, n) ==
    LET t == triple(s)
        s1 == drop_in_place(s, ReadAt(GetBuf(s, t.ptr), t.len - 1))
    IN  IF n < t.len /\ ~s.ub /\ ~s.panic
        THEN IF s1.panic THEN s1
             ELSE truncate_drops_first(set_len(s1, t.len - 1), n)
        ELSE s

RECURSIVE truncate(_, _)
truncate(s, n) ==
    LET t == triple(s)
    IN  IF n < t.len /\ ~s.ub /\ ~s.panic
        THEN truncate(drop_in_place(set_len(s, t.len - 1),
                                    ReadAt(GetBuf(s, t.ptr), t.len - 1)), n)
        ELSE s

\* clear that leaves the first element in place
clear_keeps_first(s) == truncate(s, 1)

clear(s) == truncate(s, 0)

\* <[T]>::swap(a, b) on the slice self[..]: bounds-checked
swap(s, a, b) ==
    LET t == triple(s)
        buf == GetBuf(s, t.ptr)
    IN  IF a >= t.len \/ b >= t.len THEN Panic(s)
        ELSE SetBuf(s, t.ptr, [buf EXCEPT ![a + 1] = buf[b + 1],
                                          ![b + 1] = buf[a + 1]])

\* swap_remove that closes the gap by shifting, as remove does
swap_remove_shifts(s, index) ==
    LET t == triple(s)
    IN  IF ~(index < t.len) THEN Panic(s)
        ELSE LET s1 == set_len(s, t.len - 1)
                 item == ReadAt(GetBuf(s1, t.ptr), index)
                 s2 == copy(s1, t.ptr, index + 1, index, t.len - index - 1)
             IN  [s2 EXCEPT !.ret = item]

swap_remove(s, index) ==
    LET s1 == swap(s, (len(s) - 1) % (UsizeMax + 1), index)
    IN  IF s1.panic THEN s1 ELSE pop(s1)

\* remove that clamps an index past the end to the last element
remove_clamps(s, index) ==
    LET t == triple(s)
        i == IF index < t.len THEN index ELSE t.len - 1
    IN  IF t.len = 0 THEN Panic(s)
        ELSE LET s1 == set_len(s, t.len - 1)
                 item == ReadAt(GetBuf(s1, t.ptr), i)
                 s2 == copy(s1, t.ptr, i + 1, i, t.len - i - 1)
             IN  [s2 EXCEPT !.ret = item]

remove(s, index) ==
    LET t == triple(s)
    IN  IF ~(index < t.len) THEN Panic(s)
        ELSE LET s1 == set_len(s, t.len - 1)
                 item == ReadAt(GetBuf(s1, t.ptr), index)
                 s2 == copy(s1, t.ptr, index + 1, index, t.len - index - 1)
             IN  [s2 EXCEPT !.ret = item]

\* insert that shifts one element too few
insert_short_shift(s, index, element) ==
    LET s1 == reserve(s, 1)
        t == triple(s1)
    IN  IF s1.panic THEN s1
        ELSE IF ~(index <= t.len) THEN Panic(s1)
        ELSE write(copy(set_len(s1, t.len + 1), t.ptr, index, index + 1,
                        IF index = t.len THEN 0 ELSE t.len - index - 1),
                   t.ptr, index, element)

insert(s, index, element) ==
    LET s1 == reserve(s, 1)
        t == triple(s1)
    IN  IF s1.panic THEN s1
        ELSE IF ~(index <= t.len) THEN Panic(s1)
        ELSE write(copy(set_len(s1, t.len + 1), t.ptr, index, index + 1,
                        t.len - index),
                   t.ptr, index, element)

RECURSIVE WriteSlice(_, _, _, _, _)
\* ptr::copy_nonoverlapping(slice_ptr, ptr, slice.len()): the slice's items
\* from the k-th on are copied to the slots from p + i on
WriteSlice(s, p, i, slice, k) ==
    IF k > Len(slice) THEN s
    ELSE WriteSlice(write(s, p, i, slice[k]), p, i + 1, slice, k + 1)

\* insert_from_slice without its assertion that index <= len
insert_from_slice_unchecked(s, index, slice) ==
    LET s1 == reserve(s, Len(slice))
        n == len(s1)
        p == triple(s1).ptr
    IN  IF s1.panic THEN s1
        ELSE LET s2 == copy(s1, p, index, index + Len(slice), n - index)
                 s3 == WriteSlice(s2, p, index, slice, 1)
             IN  set_len(s3, n + Len(slice))

insert_from_slice(s, index, slice) ==
    LET s1 == reserve(s, Len(slice))
        n == len(s1)
        p == triple(s1).ptr
    IN  IF s1.panic THEN s1
        ELSE IF ~(index <= n) THEN Panic(s1)
        ELSE LET s2 == copy(s1, p, index, index + Len(slice), n - index)
                 s3 == WriteSlice(s2, p, index, slice, 1)
             IN  set_len(s3, n + Len(slice))

\* An iterator is [items, hint, fail]: the items it yields, the lower bound its
\* size_hint reports, and the number of items after which next() panics
\* (None: it never panics).
Panics(iter, k) == iter.fail # None /\ iter.fail = k

RECURSIVE PushAll(_, _, _)
\* `for elem in iter { self.push(elem) }` from the k-th item on (k counts from 0)
PushAll(s, iter, k) ==
    IF s.panic \/ s.ub THEN s
    ELSE IF Panics(iter, k) THEN Panic(s)
    ELSE IF k >= Len(iter.items) THEN s
    ELSE PushAll(push(s, iter.items[k + 1]), iter, k + 1)

RECURSIVE ExtendFill(_, _, _, _, _)
\* the first loop of extend: write up to `hint` items at ptr + count
ExtendFill(s, iter, ptr, base, count) ==
    IF ~(count < iter.hint) THEN [st |-> s, count |-> count]
    ELSE IF Panics(iter, count) THEN [st |-> Panic(s), count |-> count]
    ELSE IF count >= Len(iter.items) THEN [st |-> s, count |-> count]
    ELSE ExtendFill(write(s, ptr, base + count, iter.items[count + 1]),
                    iter, ptr, base, count + 1)

\* extend that adds the whole size hint to the length, whether or not the
\* iterator yielded that many items
extend_counts_hint(s, iter) ==
    LET s1 == reserve(s, iter.hint)
        n == len(s1)
        f == ExtendFill(s1, iter, triple(s1).ptr, n, 0)
    IN  IF s1.panic THEN s1
        ELSE IF f.st.panic THEN f.st
        ELSE IF f.count < iter.hint
        THEN set_len(f.st, n + iter.hint)
        ELSE PushAll(set_len(f.st, n + f.count), iter, f.count)

extend(s, iter) ==
    LET s1 == reserve(s, iter.hint)
        n == len(s1)
        f == ExtendFill(s1, iter, triple(s1).ptr, n, 0)
    IN  IF s1.panic THEN s1
        ELSE IF f.st.panic THEN f.st
        ELSE IF f.count < iter.hint
        THEN set_len(f.st, n + f.count)
        ELSE PushAll(set_len(f.st, n + f.count), iter, f.count)

RECURSIVE InsertLoop(_, _, _, _, _, _)
\* the `for element in iter` loop of insert_many; p is the local `ptr`
\* (the buffer it points into), num_added the items written so far
InsertLoop(s, iter, index, old_len, p, num_added) ==
    IF s.panic THEN [st |-> s, p |-> p, num_added |-> num_added]
    ELSE IF Panics(iter, num_added)
    THEN [st |-> Panic(s), p |-> p, num_added |-> num_added]
    ELSE IF num_added >= Len(iter.items)
    THEN [st |-> s, p |-> p, num_added |-> num_added]
    ELSE IF num_added >= iter.hint
    THEN LET s1 == reserve(s, 1)
             p1 == triple(s1).ptr
             cur == index + num_added
             s2 == copy(s1, p1, cur, cur + 1, old_len - index)
         IN  IF s1.panic THEN [st |-> s1, p |-> p, num_added |-> num_added]
             ELSE InsertLoop(write(s2, p1, cur, iter.items[num_added + 1]),
                             iter, index, old_len, p1, num_added + 1)
    ELSE InsertLoop(write(s, p, index + num_added, iter.items[num_added + 1]),
                    iter, index, old_len, p, num_added + 1)

insert_many(s, index, iter) ==
    IF index = len(s) THEN extend(s, iter)
    ELSE IF ~(iter.hint <= IsizeMax) THEN Panic(s)
    ELSE IF ~((index + iter.hint) % (UsizeMax + 1) >= index) THEN Panic(s)
    ELSE
    LET s1 == reserve(s, iter.hint)
        old_len == len(s1)
        p == triple(s1).ptr
    IN  IF s1.panic THEN s1
        ELSE IF ~(index <= old_len) THEN Panic(s1)
        ELSE
        LET s2 == copy(s1, p, index, index + iter.hint, old_len - index)
            s3 == set_len(s2, index)
            r == InsertLoop(s3, iter, index, old_len, p, 0)
            s4 == IF r.num_added < iter.hint
                  THEN copy(r.st, r.p, index + iter.hint, index + r.num_added,
                            old_len - index)
                  ELSE r.st
        IN  IF r.st.panic THEN r.st
            ELSE set_len(s4, old_len + r.num_added)

\* a call f(x) of the caller's closure, which panics on the arguments in s.bad
Called(s, x) == [s EXCEPT !.log = Append(@, x), !.panic = @ \/ x \in s.bad]

RECURSIVE RetainLoop(_, _, _, _, _)
RECURSIVE RetainLoopMoves(_, _, _, _, _)
\* the loop of retain over i in 0..n; keep is the set the predicate accepts
\* the loop of retain moving each kept element down over the rejected ones
\* (a bitwise copy that leaves the element in its old slot too) instead of
\* swapping the two
RetainLoopMoves(s, keep, i, n, del) ==
    IF i >= n \/ s.panic THEN [st |-> s, del |-> del]
    ELSE LET x == ReadAt(GetBuf(s, triple(s).ptr), i)
             s1 == Called(s, x)
         IN  IF s1.panic THEN [st |-> s1, del |-> del]
             ELSE IF x \notin keep
             THEN RetainLoopMoves(s1, keep, i + 1, n, del + 1)
             ELSE IF del > 0
             THEN RetainLoopMoves(copy(s1, triple(s1).ptr, i, i - del, 1),
                                  keep, i + 1, n, del)
             ELSE RetainLoopMoves(s1, keep, i + 1, n, del)

RetainLoop(s, keep, i, n, del) ==
    IF i >= n \/ s.panic THEN [st |-> s, del |-> del]
    ELSE LET x == ReadAt(GetBuf(s, triple(s).ptr), i)
             s1 == Called(s, x)
         IN  IF s1.panic THEN [st |-> s1, del |-> del]
             ELSE IF x \notin keep
             THEN RetainLoop(s1, keep, i + 1, n, del + 1)
             ELSE IF del > 0
             THEN RetainLoop(swap(s1, i - del, i), keep, i + 1, n, del)
             ELSE RetainLoop(s1, keep, i + 1, n, del)

\* retain that counts the rejected elements but never moves the kept ones
retain_no_swap(s, keep) ==
    truncate(s, Cardinality({ i \in 1..len(s) :
                    ReadAt(GetBuf(s, triple(s).ptr), i - 1) \in keep }))

retain(s, keep) ==
    LET r == RetainLoop(s, keep, 0, len(s), 0)
    IN  IF r.st.panic THEN r.st ELSE truncate(r.st, len(s) - r.del)

\* mem::swap(&mut *p_a, &mut *p_b) on the slots a and b of buffer p
mem_swap(s, p, a, b) ==
    LET buf == GetBuf(s, p)
    IN  IF a < Len(buf) /\ b < Len(buf)
        THEN SetBuf(s, p, [buf EXCEPT ![a + 1] = buf[b + 1],
                                      ![b + 1] = buf[a + 1]])
        ELSE [s EXCEPT !.ub = TRUE]

RECURSIVE DedupLoopPrev(_, _, _, _, _, _)
\* the loop of dedup_by comparing each element with the one just before it
\* instead of with the last one kept
DedupLoopPrev(s, same, ptr, r, n, w) ==
    IF r >= n THEN [st |-> s, w |-> w]
    ELSE LET x_r == ReadAt(GetBuf(s, ptr), r)
             x_p == ReadAt(GetBuf(s, ptr), r - 1)
             s1 == Called(s, <<x_r, x_p>>)
         IN  IF <<x_r, x_p>> \notin same
             THEN DedupLoopPrev(IF r # w THEN mem_swap(s1, ptr, r, w) ELSE s1,
                                same, ptr, r + 1, n, w + 1)
             ELSE DedupLoopPrev(s1, same, ptr, r + 1, n, w)

RECURSIVE DedupLoop(_, _, _, _, _, _)
\* the loop of dedup_by over r in 1..n; same is the set of pairs <<a, b>> for
\* which same_bucket(a, b) answers true
DedupLoop(s, same, ptr, r, n, w) ==
    IF r >= n THEN [st |-> s, w |-> w]
    ELSE LET x_r == ReadAt(GetBuf(s, ptr), r)
             x_wm1 == ReadAt(GetBuf(s, ptr), w - 1)
             s1 == Called(s, <<x_r, x_wm1>>)
         IN  IF s1.panic THEN [st |-> s1, w |-> w]
             ELSE IF <<x_r, x_wm1>> \notin same
             THEN DedupLoop(IF r # w THEN mem_swap(s1, ptr, r, w) ELSE s1,
                            same, ptr, r + 1, n, w + 1)
             ELSE DedupLoop(s1, same, ptr, r + 1, n, w)

dedup_by(s, same) ==
    IF len(s) <= 1 THEN s
    ELSE LET r == DedupLoop(s, same, triple(s).ptr, 1, len(s), 1)
         IN  IF r.st.panic THEN r.st ELSE truncate(r.st, r.w)

RECURSIVE DropRange(_, _, _, _)
\* ptr::drop_in_place of the slots [i, n) of buffer p, front to back; when a
\* destructor panics the remaining slots are still dropped while unwinding
DropRange(s, p, i, n) ==
    IF i >= n \/ s.ub THEN s
    ELSE DropRange(drop_in_place(s, ReadAt(GetBuf(s, p), i)), p, i + 1, n)

\* dropping the Vec made by Vec::from_raw_parts(ptr, length, cap)
DropRawVec(s, ptr, length, cap) ==
    IF ~Usable(s, ptr) THEN deallocate([s EXCEPT !.ub = TRUE], ptr, cap)
    ELSE deallocate(DropRange(s, ptr, 0, length), ptr, cap)

\* Drop for SmallVec
drop(s) ==
    IF spilled(s)
    THEN DropRawVec(s, s.data.ptr, s.data.len, s.capacity)
    ELSE DropRange(s, 0, 0, len(s))

\* drain() that leaves the length as it was
drain_keeps_len(s) == s

\* the container's part of drain(): `self.set_len(0)`
drain(s) == set_len(s, 0)

\* into_iter() that leaves the length as it was
into_iter_keeps_len(s) == s

\* the container's part of into_iter(): `self.set_len(0)`
into_iter(s) == set_len(s, 0)

\* into_vec that hands the Vec the length as its capacity
into_vec_len_as_cap(s, c) ==
    IF spilled(s)
    THEN [st |-> s,
          vec |-> [ptr |-> s.data.ptr, len |-> s.data.len, cap |-> s.data.len]]
    ELSE LET n == len(s)
             s1 == into_iter(s)
             p == FreeId(s1)
             s2 == copy_nonoverlapping(allocate(s1, p, c), 0, 0, p, 0, n)
         IN  IF n = 0 THEN [st |-> s1, vec |-> [ptr |-> 0, len |-> 0, cap |-> 0]]
             ELSE [st |-> s2, vec |-> [ptr |-> p, len |-> n, cap |-> c]]

\* into_vec(): a spilled container's buffer becomes the Vec's
\* (Vec::from_raw_parts, mem::forget(self)); otherwise
\* self.into_iter().collect() moves the elements into a new Vec, whose
\* capacity c >= len is the standard library's choice
into_vec(s, c) ==
    IF spilled(s)
    THEN [st |-> s,
          vec |-> [ptr |-> s.data.ptr, len |-> s.data.len, cap |-> s.capacity]]
    ELSE LET n == len(s)
             s1 == into_iter(s)
             p == FreeId(s1)
             s2 == copy_nonoverlapping(allocate(s1, p, c), 0, 0, p, 0, n)
         IN  IF n = 0 THEN [st |-> s1, vec |-> [ptr |-> 0, len |-> 0, cap |-> 0]]
             ELSE [st |-> s2, vec |-> [ptr |-> p, len |-> n, cap |-> c]]

RECURSIVE CloneInto(_, _, _)
\* `for element in self.iter() { new_vector.push((*element).clone()) }` from
\* the k-th element of the slice q on; the clone of a value is an equal value
CloneInto(v, q, k) ==
    IF k > Len(q) \/ v.panic THEN v
    ELSE CloneInto(push(v, q[k]), q, k + 1)

\* clone that pre-sizes the new container to the source's capacity
clone_keeps_capacity(s) ==
    LET new_vector == with_capacity([s EXCEPT !.capacity = new.capacity,
                                              !.data = new.data],
                                    triple(s).cap)
    IN  CloneInto(new_vector,
                  [i \in 1..len(s) |-> ReadAt(GetBuf(s, triple(s).ptr), i - 1)], 1)

\* Clone for SmallVec: the record returned holds the new container (its
\* capacity and data fields) and the heap with both containers' buffers
clone(s) ==
    LET new_vector == with_capacity([s EXCEPT !.capacity = new.capacity,
                                              !.data = new.data],
                                    len(s))
    IN  CloneInto(new_vector,
                  [i \in 1..len(s) |-> ReadAt(GetBuf(s, triple(s).ptr), i - 1)], 1)

\* into_inner that does not look at the storage variant
into_inner_ignores_spill(s) ==
    IF len(s) # N THEN [ok |-> FALSE, array |-> <<>>]
    ELSE [ok |-> TRUE, array |-> GetBuf(s, triple(s).ptr)]

\* into_inner(): Err(self) hands the container back as it is, Ok(array) moves
\* the inline buffer out and forgets the container
into_inner(s) ==
    IF spilled(s) \/ len(s) # N THEN [ok |-> FALSE, array |-> <<>>]
    ELSE [ok |-> TRUE, array |-> s.data.buf]

\* Some(x) returned by an iterator: the caller receives x and drops it
Yield(s, x) == [TakenByCaller(s, x) EXCEPT !.ret = x]

\* ------------------------------------------------------------- actions
Cur == [capacity |-> capacity, data |-> data, mem |-> mem, drops |-> drops,
        ub |-> ub, dfree |-> dfree, panic |-> FALSE, ret |-> None,
        log |-> <<>>, bad |-> {}, bomb |-> {}]

\* The discriminant agrees with the active variant and the heap pointer is
\* valid: what SmallVecData::heap()/inline() take for granted.
Sound(s) ==
    /\ spilled(s) <=> s.data.tag = "Heap"
    /\ s.data.tag = "Heap" => s.mem[s.data.ptr].live

Elems(s) ==
    [i \in 1..len(s) |-> ReadAt(GetBuf(s, triple(s).ptr), i - 1)]

\* Between calls the slots outside the owned range [lo, hi) of the active
\* buffer hold moved-from or never-written values: their bits are forgotten,
\* so a later read of one is a read of indeterminate memory.
Forget(s, lo, hi) ==
    IF s.ub \/ ~Sound(s) THEN s
    ELSE LET p == triple(s).ptr
             b == GetBuf(s, p)
         IN  SetBuf(s, p, [k \in 1..Len(b) |->
                              IF k - 1 >= lo /\ k - 1 < hi THEN b[k] ELSE Uninit])

Settle(s) == IF s.ub \/ ~Sound(s) THEN s ELSE Forget(s, 0, len(s))

Set(s) ==
    /\ capacity' = s.capacity
    /\ data' = s.data
    /\ mem' = s.mem
    /\ drops' = s.drops
    /\ ub' = s.ub
    /\ dfree' = s.dfree

\* a call op(args) on the container that leaves it in state s
Call(op, args, s) ==
    /\ Set(Settle(s))
    /\ last' = [op |-> op, args |-> args, was |-> spilled(Cur),
                panic |-> s.panic, ret |-> s.ret, log |-> s.log]
    /\ calls' = calls + 1

\* a call on a Drain or IntoIter that still owns the slots [lo, hi)
CallIt(op, s, lo, hi) ==
    /\ Set(Forget(s, lo, hi))
    /\ last' = [op |-> op, args |-> <<>>, was |-> spilled(Cur),
                panic |-> s.panic, ret |-> s.ret, log |-> s.log]
    /\ UNCHANGED calls

\* a call whose return value the caller receives and drops
CallTake(op, args, s) ==
    Call(op, args, IF s.ret = None THEN s ELSE TakenByCaller(s, s.ret))

Ready == mode = "vec" /\ ~ub /\ Sound(Cur) /\ calls < MaxCalls

Unborn == Elem \ born

\* Elements are interchangeable: a caller's next new elements are the least
\* ones not yet created.
Fresh == { e \in Unborn : \A d \in Unborn : e <= d }
FreshSeq(n) == [i \in 1..n |-> Cardinality(born) + i]

\* the iterators a caller can pass: new items, any lower-bound hint (below,
\* at or above the number of items), panicking after any number of items or
\* never
Iters ==
    { [items |-> q, hint |-> h, fail |-> f] :
        q \in { FreshSeq(n) : n \in 0..MaxItems },
        h \in 0..(MaxItems + 1), f \in {None} \cup (0..MaxItems) }

GoodIter(iter) ==
    /\ \A i \in DOMAIN iter.items : iter.items[i] \in Unborn
    /\ iter.fail # None => iter.fail <= Len(iter.items)

\* the items an iterator has handed over when the call returns or unwinds
Yielded(iter) ==
    { iter.items[i] : i \in { j \in DOMAIN iter.items :
                                iter.fail = None \/ j <= iter.fail } }

\* a Vec<A::Item> of `n` elements and capacity `c`, before from_vec takes it
VecOf(n, c) ==
    [capacity |-> 0, data |-> Inline(<<>>),
     mem |-> [p \in 1..MaxAllocs |->
                IF p = 1 /\ c > 0
                THEN [live |-> TRUE, cap |-> c,
                      slots |-> [i \in 1..c |-> IF i <= n THEN i ELSE Uninit]]
                ELSE NoBlock],
     drops |-> [e \in Elem |-> 0], ub |-> FALSE, dfree |-> FALSE,
     panic |-> FALSE, ret |-> None, log |-> <<>>, bad |-> {}, bomb |-> {}]

Start(s, op, args, b) ==
    /\ capacity = s.capacity
    /\ data = s.data
    /\ mem = s.mem
    /\ drops = s.drops
    /\ ub = s.ub
    /\ dfree = s.dfree
    /\ mode = "vec"
    /\ it = [ptr |-> 0, cur |-> 0, end |-> 0]
    /\ born = b
    /\ calls = 0
    /\ last = [op |-> op, args |-> args, was |-> FALSE,
               panic |-> FALSE, ret |-> None, log |-> <<>>]

\* the state after SmallVec::from_vec(v), for every small Vec v
Init ==
    /\ N \in 0..MaxInline
    /\ \E n \in 0..MaxElems, c \in 0..IsizeMax :
         /\ n <= c
         /\ Start(from_vec(VecOf(n, c),
                           [ptr |-> IF c > 0 THEN 1 ELSE 0, len |-> n, cap |-> c]),
                  "from_vec", <<n, c>>, 1..n)

\* the state after SmallVec::new()
InitNew ==
    /\ N \in 0..MaxInline
    /\ Start([VecOf(0, 0) EXCEPT !.capacity = new.capacity, !.data = new.data],
             "new", <<>>, {})

\* the state after SmallVec::with_capacity(n), for every n; when the
\* allocation panics no container comes to exist
InitWithCapacity ==
    /\ N \in 0..MaxInline
    /\ \E n \in 0..UsizeMax :
         LET v == with_capacity([VecOf(0, 0) EXCEPT !.capacity = new.capacity,
                                                    !.data = new.data], n)
         IN  /\ capacity = v.capacity
             /\ data = v.data
             /\ mem = v.mem
             /\ drops = v.drops
             /\ ub = v.ub
             /\ dfree = v.dfree
             /\ mode = IF v.panic THEN "dead" ELSE "vec"
             /\ it = [ptr |-> 0, cur |-> 0, end |-> 0]
             /\ born = {}
             /\ calls = 0
             /\ last = [op |-> "with_capacity", args |-> <<n>>, was |-> FALSE,
                        panic |-> v.panic, ret |-> None, log |-> <<>>]

\* two containers with the same elements and the same storage variant, built
\* by from_vec from Vecs of capacities c1 and c2: the one in the variables is
\* appended to with push_light, the one in `it` (its fields and its heap) with
\* push
InitTwin ==
    /\ N \in 0..MaxInline
    /\ \E n \in 0..MaxElems, c1 \in 0..IsizeMax, c2 \in 0..IsizeMax :
         LET a == from_vec(VecOf(n, c1),
                           [ptr |-> IF c1 > 0 THEN 1 ELSE 0, len |-> n, cap |-> c1])
             b == from_vec(VecOf(n, c2),
                           [ptr |-> IF c2 > 0 THEN 1 ELSE 0, len |-> n, cap |-> c2])
         IN  /\ n <= c1 /\ n <= c2 /\ (c1 > N <=> c2 > N)
             /\ capacity = a.capacity
             /\ data = a.data
             /\ mem = a.mem
             /\ drops = a.drops
             /\ ub = a.ub
             /\ dfree = a.dfree
             /\ mode = "vec"
             /\ it = [capacity |-> b.capacity, data |-> b.data, mem |-> b.mem,
                      ub |-> b.ub, dfree |-> b.dfree]
             /\ born = 1..n
             /\ calls = 0
             /\ last = [op |-> "from_vec", args |-> <<n, c1, c2>>, was |-> FALSE,
                        panic |-> FALSE, ret |-> None, log |-> <<>>]

\* the container kept in `it`
Twin == [Cur EXCEPT !.capacity = it.capacity, !.data = it.data,
                    !.mem = it.mem, !.ub = it.ub, !.dfree = it.dfree]

\* the same value appended to both: push_light on the one, push on the other;
\* the comparison ends when either call panics
PushBoth ==
    /\ mode = "vec" /\ ~ub /\ ~it.ub /\ Sound(Cur) /\ Sound(Twin)
    /\ \E x \in Fresh :
         LET a == push_light(Cur, x)
             b == Settle(push(Twin, x))
         IN  /\ Call("push_light", <<x>>, [a EXCEPT !.panic = a.panic \/ b.panic])
             /\ it' = [capacity |-> b.capacity, data |-> b.data, mem |-> b.mem,
                       ub |-> b.ub, dfree |-> b.dfree]
             /\ mode' = IF a.panic \/ b.panic THEN "dead" ELSE "vec"
             /\ born' = born \cup {x}
    /\ UNCHANGED N

Push ==
    /\ Ready
    /\ \E x \in Fresh :
         /\ Call("push", <<x>>, push(Cur, x))
         /\ born' = born \cup {x}
    /\ UNCHANGED <<N, mode, it>>

\* push of any new value, however many calls came before
PushAny ==
    /\ mode = "vec" /\ ~ub /\ Sound(Cur)
    /\ \E x \in Unborn :
         /\ Call("push", <<x>>, push(Cur, x))
         /\ born' = born \cup {x}
    /\ UNCHANGED <<N, mode, it>>

Pop ==
    /\ Ready
    /\ CallTake("pop", <<>>, pop(Cur))
    /\ UNCHANGED <<N, mode, it, born>>

Insert ==
    /\ Ready
    /\ \E x \in Fresh, index \in 0..(len(Cur) + 1) :
         /\ Call("insert", <<index, x>>, insert(Cur, index, x))
         /\ born' = born \cup {x}
    /\ UNCHANGED <<N, mode, it>>

Remove ==
    /\ Ready
    /\ \E index \in 0..len(Cur) :
         CallTake("remove", <<index>>, remove(Cur, index))
    /\ UNCHANGED <<N, mode, it, born>>

SwapRemove ==
    /\ Ready
    /\ \E index \in 0..len(Cur) :
         CallTake("swap_remove", <<index>>, swap_remove(Cur, index))
    /\ UNCHANGED <<N, mode, it, born>>

InsertFromSlice ==
    /\ Ready
    /\ \E k \in 0..MaxItems, index \in 0..(len(Cur) + 1) :
         LET r == insert_from_slice(Cur, index, FreshSeq(k))
         IN  /\ \A i \in 1..k : FreshSeq(k)[i] \in Unborn
             /\ Call("insert_from_slice", <<index, FreshSeq(k)>>, r)
             /\ born' = IF r.panic THEN born
                        ELSE born \cup { FreshSeq(k)[i] : i \in 1..k }
    /\ UNCHANGED <<N, mode, it>>

InsertMany ==
    /\ Ready
    /\ \E iter \in Iters, index \in 0..(len(Cur) + 1) :
         /\ GoodIter(iter)
         /\ Call("insert_many", <<index, iter>>, insert_many(Cur, index, iter))
         /\ born' = born \cup Yielded(iter)
    /\ UNCHANGED <<N, mode, it>>

Extend ==
    /\ Ready
    /\ \E iter \in Iters :
         /\ GoodIter(iter)
         /\ Call("extend", <<iter>>, extend(Cur, iter))
         /\ born' = born \cup Yielded(iter)
    /\ UNCHANGED <<N, mode, it>>

Truncate ==
    /\ Ready
    /\ \E n \in 0..(len(Cur) + 1) : Call("truncate", <<n>>, truncate(Cur, n))
    /\ UNCHANGED <<N, mode, it, born>>

Clear ==
    /\ Ready
    /\ Call("clear", <<>>, clear(Cur))
    /\ UNCHANGED <<N, mode, it, born>>

Retain ==
    /\ Ready
    /\ \E keep \in SUBSET { Elems(Cur)[i] : i \in 1..len(Cur) } :
         Call("retain", <<keep>>, retain(Cur, keep))
    /\ UNCHANGED <<N, mode, it, born>>

\* dedup_by with any relation; only its answers on pairs (later element,
\* earlier element) can be asked for
DedupBy ==
    /\ Ready
    /\ \E same \in SUBSET { <<Elems(Cur)[ij[2]], Elems(Cur)[ij[1]]>> :
                              ij \in { c \in (1..len(Cur)) \X (1..len(Cur)) :
                                          c[1] < c[2] } } :
         Call("dedup_by", <<same>>, dedup_by(Cur, same))
    /\ UNCHANGED <<N, mode, it, born>>

\* truncate(n) of a container in which the destructor of the element x panics
TruncatePanics ==
    /\ Ready
    /\ \E n \in 0..len(Cur), x \in { Elems(Cur)[i] : i \in 1..len(Cur) } :
         Call("truncate", <<n, x>>, truncate([Cur EXCEPT !.bomb = {x}], n))
    /\ UNCHANGED <<N, mode, it, born>>

ClearPanics ==
    /\ Ready
    /\ \E x \in { Elems(Cur)[i] : i \in 1..len(Cur) } :
         Call("clear", <<x>>, clear([Cur EXCEPT !.bomb = {x}]))
    /\ UNCHANGED <<N, mode, it, born>>

\* retain with a predicate that accepts the elements in keep, rejects the
\* others and panics when it is shown the element x
RetainPanics ==
    /\ Ready
    /\ \E keep \in SUBSET { Elems(Cur)[i] : i \in 1..len(Cur) } :
         \E x \in { Elems(Cur)[i] : i \in 1..len(Cur) } \ keep :
            Call("retain", <<keep, x>>, retain([Cur EXCEPT !.bad = {x}], keep))
    /\ UNCHANGED <<N, mode, it, born>>

\* dedup_by with a relation that panics when it is asked about the element b.
\* The relation is asked once about each element after the first, so what it
\* does is fixed by the set D of elements it puts in the bucket of the
\* element they are compared with.
DedupByPanics ==
    /\ Ready
    /\ LET all == { Elems(Cur)[i] : i \in 1..len(Cur) }
           later == { Elems(Cur)[i] : i \in 2..len(Cur) }
       IN  \E D \in SUBSET later : \E b \in later \ D :
              Call("dedup_by", <<D \X all, b>>,
                   dedup_by([Cur EXCEPT !.bad = {b} \X all], D \X all))
    /\ UNCHANGED <<N, mode, it, born>>

Grow ==
    /\ Ready
    /\ \E new_cap \in 0..(IsizeMax + 1) :
         Call("grow", <<new_cap>>, grow(Cur, new_cap))
    /\ UNCHANGED <<N, mode, it, born>>

Reserve ==
    /\ Ready
    /\ \E additional \in (0..(MaxItems + 1)) \cup {UsizeMax} :
         Call("reserve", <<additional>>, reserve(Cur, additional))
    /\ UNCHANGED <<N, mode, it, born>>

ReserveExact ==
    /\ Ready
    /\ \E additional \in (0..(MaxItems + 1)) \cup {UsizeMax} :
         Call("reserve_exact", <<additional>>, reserve_exact(Cur, additional))
    /\ UNCHANGED <<N, mode, it, born>>

ShrinkToFit ==
    /\ Ready
    /\ Call("shrink_to_fit", <<>>, shrink_to_fit(Cur))
    /\ UNCHANGED <<N, mode, it, born>>

\* drain(): the length goes to zero and the Drain borrows the old range
Drain ==
    /\ Ready
    /\ CallIt("drain", drain(Cur), 0, len(Cur))
    /\ it' = [ptr |-> triple(Cur).ptr, cur |-> 0, end |-> len(Cur)]
    /\ mode' = "drain"
    /\ UNCHANGED <<N, born>>

\* slice::IterMut::next, then ptr::read of the slot; None once exhausted
DrainNext ==
    /\ mode = "drain" /\ ~ub
    /\ IF it.cur < it.end
       THEN /\ CallIt("Drain::next",
                      Yield(Cur, ReadAt(GetBuf(Cur, it.ptr), it.cur)),
                      it.cur + 1, it.end)
            /\ it' = [it EXCEPT !.cur = @ + 1]
       ELSE /\ CallIt("Drain::next", Cur, it.cur, it.end)
            /\ it' = it
    /\ UNCHANGED <<N, mode, born>>

DrainNextBack ==
    /\ mode = "drain" /\ ~ub
    /\ IF it.cur < it.end
       THEN /\ CallIt("Drain::next_back",
                      Yield(Cur, ReadAt(GetBuf(Cur, it.ptr), it.end - 1)),
                      it.cur, it.end - 1)
            /\ it' = [it EXCEPT !.end = @ - 1]
       ELSE /\ CallIt("Drain::next_back", Cur, it.cur, it.end)
            /\ it' = it
    /\ UNCHANGED <<N, mode, born>>

\* Drop for Drain: `for _ in self.by_ref() {}`
DrainDrop ==
    /\ mode = "drain" /\ ~ub
    /\ Call("Drain::drop", <<>>, DropRange(Cur, it.ptr, it.cur, it.end))
    /\ it' = [it EXCEPT !.cur = it.end]
    /\ mode' = "vec"
    /\ UNCHANGED <<N, born>>

\* into_iter(): the length goes to zero and the IntoIter owns the container
IntoIter ==
    /\ Ready
    /\ CallIt("into_iter", into_iter(Cur), 0, len(Cur))
    /\ it' = [ptr |-> triple(Cur).ptr, cur |-> 0, end |-> len(Cur)]
    /\ mode' = "iter"
    /\ UNCHANGED <<N, born>>

IntoIterNext ==
    /\ mode = "iter" /\ ~ub
    /\ IF it.cur # it.end
       THEN /\ CallIt("IntoIter::next",
                      Yield(Cur, ReadAt(GetBuf(Cur, triple(Cur).ptr), it.cur)),
                      it.cur + 1, it.end)
            /\ it' = [it EXCEPT !.cur = @ + 1]
       ELSE /\ CallIt("IntoIter::next", Cur, it.cur, it.end)
            /\ it' = it
    /\ UNCHANGED <<N, mode, born>>

IntoIterNextBack ==
    /\ mode = "iter" /\ ~ub
    /\ IF it.cur # it.end
       THEN /\ CallIt("IntoIter::next_back",
                      Yield(Cur, ReadAt(GetBuf(Cur, triple(Cur).ptr), it.end - 1)),
                      it.cur, it.end - 1)
            /\ it' = [it EXCEPT !.end = @ - 1]
       ELSE /\ CallIt("IntoIter::next_back", Cur, it.cur, it.end)
            /\ it' = it
    /\ UNCHANGED <<N, mode, born>>

\* Drop for IntoIter: `for _ in self {}`, then its field `data` is dropped
IntoIterDrop ==
    /\ mode = "iter" /\ ~ub
    /\ Call("IntoIter::drop", <<>>,
            drop(DropRange(Cur, triple(Cur).ptr, it.cur, it.end)))
    /\ it' = [it EXCEPT !.cur = it.end]
    /\ mode' = "dead"
    /\ UNCHANGED <<N, born>>

\* into_vec(): the container is consumed, the caller holds the Vec
IntoVec ==
    /\ Ready
    /\ \E c \in len(Cur)..IsizeMax :
         LET r == into_vec(Cur, c)
         IN  /\ Call("into_vec", <<>>, r.st)
             /\ it' = r.vec
    /\ mode' = "moved"
    /\ UNCHANGED <<N, born>>

\* SmallVec::from_vec on the Vec that into_vec returned
FromVec ==
    /\ mode = "moved" /\ ~ub
    /\ Call("from_vec", <<it.len, it.cap>>, from_vec(Cur, it))
    /\ it' = [ptr |-> 0, cur |-> 0, end |-> 0]
    /\ mode' = "vec"
    /\ UNCHANGED <<N, born>>

\* clone(): the caller holds the source and the new container
Clone ==
    /\ Ready
    /\ LET v == clone(Cur)
       IN  /\ Call("clone", <<>>, [v EXCEPT !.capacity = capacity, !.data = data])
           /\ it' = [capacity |-> v.capacity, data |-> v.data]
    /\ mode' = "cloned"
    /\ UNCHANGED <<N, born>>

\* into_inner(): on Ok the container is gone and the caller holds the array,
\* on Err the caller holds the container again
IntoInner ==
    /\ Ready
    /\ LET r == into_inner(Cur)
       IN  /\ Call("into_inner", <<>>, Cur)
           /\ it' = IF r.ok THEN r.array ELSE it
           /\ mode' = IF r.ok THEN "array" ELSE "vec"
    /\ UNCHANGED <<N, born>>

\* the container goes out of scope (also while a panic unwinds)
Drop ==
    /\ mode = "vec" /\ ~ub
    /\ spilled(Cur) <=> data.tag = "Heap"
    /\ Call("drop", <<>>, drop(Cur))
    /\ mode' = "dead"
    /\ UNCHANGED <<N, it, born>>

\* the container goes out of scope and the destructor of its element x panics
DropPanics ==
    /\ mode = "vec" /\ ~ub
    /\ spilled(Cur) <=> data.tag = "Heap"
    /\ \E x \in { Elems(Cur)[i] : i \in 1..len(Cur) } :
         Call("drop", <<x>>, drop([Cur EXCEPT !.bomb = {x}]))
    /\ mode' = "dead"
    /\ UNCHANGED <<N, it, born>>

\* Any call on a container whose discriminant names the variant that is not
\* active, or whose heap pointer was already released: SmallVecData::heap()
\* on Inline data is debug_unreachable!(), a released buffer is read or
\* released again.
Misuse ==
    /\ mode = "vec" /\ ~ub /\ ~Sound(Cur)
    /\ ub' = TRUE
    /\ UNCHANGED <<N, capacity, data, mem, drops, dfree, mode, it, born,
                   calls, last>>

Next ==
    \/ Push \/ Pop \/ Insert \/ Remove \/ SwapRemove
    \/ InsertMany \/ Extend
    \/ Truncate \/ Clear \/ Retain \/ DedupBy
    \/ Grow \/ Reserve \/ ReserveExact \/ ShrinkToFit
    \/ Drain \/ DrainNext \/ DrainNextBack \/ DrainDrop
    \/ IntoIter \/ IntoIterNext \/ IntoIterNextBack \/ IntoIterDrop
    \/ Drop \/ Misuse

Spec == Init /\ [][Next]_vars

\* pushes alone, from an empty container
NextPush == PushAny
SpecPush == InitNew /\ [][NextPush]_vars

\* a container built from n elements, then any mix of truncate, retain,
\* drain and consuming iteration, and its destruction
NextDrop ==
    \/ Truncate \/ Retain
    \/ Drain \/ DrainNext \/ DrainNextBack \/ DrainDrop
    \/ IntoIter \/ IntoIterNext \/ IntoIterNextBack \/ IntoIterDrop
    \/ Drop
SpecDrop == Init /\ [][NextDrop]_vars

\* a container built from n elements, then the operations that only move
\* single elements and change the capacity
NextCap == Push \/ Pop \/ Reserve \/ ReserveExact \/ ShrinkToFit
SpecCap == Init /\ [][NextCap]_vars

\* a container built from n elements, then insertions and removals by index
NextIR == Insert \/ Remove
SpecIR == Init /\ [][NextIR]_vars

\* a container built from n elements, then grow calls between pushes and pops
NextGrow == Grow \/ Push \/ Pop
SpecGrow == Init /\ [][NextGrow]_vars

\* a container built from n elements, then the operations on its end
NextTail == Push \/ Pop \/ SwapRemove \/ Truncate \/ Clear
SpecTail == Init /\ [][NextTail]_vars

\* a container built from n elements, pushes and pops, then a clone or a
\* conversion into the array
NextWhole == Push \/ Pop \/ Clone \/ IntoInner
SpecWhole == Init /\ [][NextWhole]_vars

\* a container made by with_capacity(n), then pushes and pops
NextEnds == Push \/ Pop
SpecWithCapacity == InitWithCapacity /\ [][NextEnds]_vars

\* one insertion, of an element, an iterable or a slice, into a container as
\* built: every length, capacity and storage variant
InsertFirst == calls = 0 /\ Insert
InsertManyFirst == calls = 0 /\ InsertMany
InsertFromSliceFirst == calls = 0 /\ InsertFromSlice
NextInsertion == InsertFirst \/ InsertManyFirst \/ InsertFromSliceFirst
SpecInsertion == Init /\ [][NextInsertion]_vars

\* a container built from n elements, a retain or dedup_by whose closure
\* panics as the first call on it, then its destruction
RetainPanicsFirst == calls = 0 /\ RetainPanics
DedupByPanicsFirst == calls = 0 /\ DedupByPanics
NextUnwind == RetainPanicsFirst \/ DedupByPanicsFirst \/ Drop
SpecUnwind == Init /\ [][NextUnwind]_vars

\* a container built from n elements, truncate and clear calls during which
\* one destructor panics, then its destruction, with or without a panic
NextBomb == TruncatePanics \/ ClearPanics \/ DropPanics \/ Drop
SpecBomb == Init /\ [][NextBomb]_vars

\* one extend, or insert_many, with any iterable on a container as built
ExtendFirst == calls = 0 /\ Extend
NextExtend == ExtendFirst \/ InsertManyFirst
SpecExtend == Init /\ [][NextExtend]_vars

\* the same values appended with push_light and with push
NextTwin == PushBoth
SpecTwin == InitTwin /\ [][NextTwin]_vars

\* ---------------------------------------------------------- observers
\* what the public accessors return in the current state
Spilled == spilled(Cur)
Intact == Sound(Cur) /\ len(Cur) <= triple(Cur).cap
Length == IF Sound(Cur) THEN len(Cur) ELSE None
Capacity == IF spilled(Cur) THEN capacity ELSE N
\* the slice self[..]; <<None>> when reading it is undefined
Contents == IF Intact THEN Elems(Cur) ELSE <<None>>

Max(a, b) == IF a >= b THEN a ELSE b
Range(q) == { q[i] : i \in DOMAIN q }

\* the step just taken is the call `op`
StepOf(op) == calls' = calls + 1 /\ last'.op = op

\* ------------------------------------------------------------- claims

\* C1: in every reachable state the capacity field is <= the inline capacity
\* exactly when the active variant is the inline buffer (and > it exactly when
\* the active variant is the heap buffer).
C1_DiscriminantMatchesVariant ==
    /\ capacity <= N <=> data.tag = "Inline"
    /\ capacity > N <=> data.tag = "Heap"

\* C2: in every reachable state the element count does not exceed the capacity
\* of the active buffer: a spilled container's heap length is <= its recorded
\* heap capacity, an inline container's length is <= the inline capacity.
C2_LenWithinCapacity ==
    /\ (data.tag = "Heap" /\ Spilled) => data.len <= capacity
    /\ (data.tag = "Inline" /\ ~Spilled) => capacity <= N

\* C4: every heap buffer is released exactly once: never while the container
\* still points at it, never twice, and none is left when the container (or the
\* iterator that owns it) has been destroyed.
C4_BufferReleasedOnce ==
    /\ ~dfree
    /\ (mode # "dead" /\ data.tag = "Heap") => mem[data.ptr].live
    /\ mode = "dead" => \A p \in 1..MaxAllocs : ~mem[p].live

\* C3: for a container built from N elements, any mix of truncate, retain,
\* drain and consuming iteration (consumed from either end, fully or partly,
\* then dropped) and final destruction drops each element exactly once: an
\* element still owned by the container or by an iterator has not been dropped,
\* every other one has been dropped once, and after destruction all have.
Owned ==
    IF mode = "vec" THEN Range(Contents)
    ELSE IF mode = "dead" THEN {}
    ELSE { ReadAt(GetBuf(Cur, IF mode = "drain" THEN it.ptr ELSE triple(Cur).ptr), i) :
             i \in it.cur..(it.end - 1) }
C3_DroppedExactlyOnce ==
    /\ ~ub
    /\ \A e \in born : drops[e] = IF e \in Owned THEN 0 ELSE 1
    /\ mode = "dead" => \A e \in born : drops[e] = 1
C3_Witness ==
    /\ mode = "dead" /\ last.op = "IntoIter::drop" /\ last.was
    /\ calls = MaxCalls
    /\ Cardinality(born) >= 3
    /\ \A e \in born : drops[e] = 1

\* C5: for contents s, index <= len and an iterable that yields items t
\* without failing, whatever its size hint, insert_many(index, iterable)
\* leaves s[..index] ++ t ++ s[index..], of length |s| + |t|.
C5_InsertManyResult ==
    [][(/\ StepOf("insert_many")
        /\ last'.args[1] <= Length
        /\ last'.args[2].fail = None
        /\ ~last'.panic)
       => (/\ ~ub'
           /\ Contents' = SubSeq(Contents, 1, last'.args[1])
                            \o last'.args[2].items
                            \o SubSeq(Contents, last'.args[1] + 1, Length)
           /\ Length' = Length + Len(last'.args[2].items))]_vars

\* C6: when the iterable passed to insert_many fails, then at the failure
\* point the container is well-formed, every slot inside [0, len) holds an
\* initialized element that has not been dropped, no two slots hold the same
\* element, no element has been dropped twice, and on the shifting path the
\* length is index with the prefix s[..index] in place.
C6_FailureKeepsLiveRange ==
    [][(/\ StepOf("insert_many")
        /\ last'.args[1] <= Length
        /\ last'.args[2].fail # None
        /\ last'.panic)
       => (/\ ~ub'
           /\ Intact'
           /\ \A i \in 1..Len(Contents') :
                /\ Contents'[i] \in born'
                /\ drops'[Contents'[i]] = 0
                /\ \A j \in 1..Len(Contents') : Contents'[i] = Contents'[j] => i = j
           /\ \A e \in Elem : drops'[e] <= 1
           /\ (last'.args[1] < Length /\ ~reserve(Cur, last'.args[2].hint).panic)
                => Contents' = SubSeq(Contents, 1, last'.args[1]))]_vars

\* C7: when the iterable passed to insert_many fails partway through, none of
\* the elements is leaked: by the time the container is destroyed each element
\* of the container and each item the iterable handed over was dropped exactly
\* once (checked for an insert_many in front of a non-empty trailing block, as
\* the first call on the container).
C7_FailureLeaksNothing ==
    [][(/\ last.op = "insert_many" /\ last.panic /\ last.args[2].fail # None
        /\ calls = 1
        /\ Cardinality(born) > last.args[1] + Cardinality(Yielded(last.args[2]))
        /\ StepOf("drop"))
       => \A e \in born : drops'[e] = 1]_vars

\* C8: for new_cap >= len, grow(new_cap) keeps the elements and the length,
\* capacity() becomes max(new_cap, inline_size()), the container is spilled
\* iff new_cap > inline_size(), and no heap buffer it still uses is released.
C8_GrowPostcondition ==
    [][(StepOf("grow") /\ Length <= last'.args[1] /\ ~last'.panic)
       => (/\ Contents' = Contents
           /\ Length' = Length
           /\ Capacity' = Max(last'.args[1], N)
           /\ Spilled' <=> last'.args[1] > N
           /\ data'.tag = "Heap" <=> last'.args[1] > N
           /\ data'.tag = "Heap" => mem'[data'.ptr].live)]_vars

\* C9: starting from an empty container of any inline capacity, 0 included,
\* after n pushes the length is n, each push appends its value behind the
\* earlier ones, and the container is spilled iff n exceeds the inline capacity.
C9_PushesFromEmpty ==
    /\ [](Length = calls /\ (Spilled <=> calls > N))
    /\ [][Contents' = Append(Contents, last'.args[1])]_vars
C9_Witness ==
    /\ N = 0 /\ calls = 2 /\ Spilled
    /\ Contents = <<1, 2>>

\* C10: shrink_to_fit changes nothing on a container that is not spilled; on a
\* spilled one it keeps the elements in order and ends not spilled (inline
\* variant, capacity field = len) when len <= inline capacity, and otherwise
\* spilled with capacity exactly len.
C10_ShrinkToFit ==
    [][StepOf("shrink_to_fit")
       => (/\ ~ub' /\ ~last'.panic
           /\ Contents' = Contents
           /\ ~Spilled => UNCHANGED <<capacity, data, mem>>
           /\ (Spilled /\ Length <= N)
                => ~Spilled' /\ data'.tag = "Inline" /\ capacity' = Length
           /\ (Spilled /\ Length > N)
                => Spilled' /\ data'.tag = "Heap" /\ Capacity' = Length)]_vars
C10_Witness ==
    /\ last.op = "shrink_to_fit" /\ last.was
    /\ ~Spilled /\ data.tag = "Inline"
    /\ calls = 2 /\ Cardinality(born) = N + 1 /\ Length = N /\ N > 0

\* C11: once the container is spilled, a call of push, pop, insert, remove,
\* swap_remove, insert_many, extend, truncate, clear, retain, dedup_by, drain
\* (and the Drain's calls), reserve or reserve_exact leaves it spilled with a
\* capacity() that is not smaller; shrink_to_fit and grow never leave the
\* capacity below the length.
GrowOnlyOps ==
    {"push", "pop", "insert", "remove", "swap_remove", "insert_many",
     "extend", "truncate", "clear", "retain", "dedup_by", "drain",
     "Drain::next", "Drain::next_back", "Drain::drop", "reserve",
     "reserve_exact"}
C11_CapacityMonotone ==
    [][/\ (Spilled /\ last'.op \in GrowOnlyOps)
            => (Spilled' /\ Capacity' >= Capacity /\ data'.tag = "Heap")
       /\ ((StepOf("shrink_to_fit") \/ StepOf("grow")) /\ ~last'.panic)
            => Capacity' >= Length]_vars
C11_Witness ==
    /\ last.op = "reserve" /\ last.was /\ ~last.panic
    /\ Spilled /\ data.tag = "Heap" /\ data.ptr = 2
    /\ Length = 3 /\ capacity = 4

\* the container is left as it was
Untouched == UNCHANGED <<capacity, data, mem, drops>>

\* C12: reserve(additional) changes nothing when capacity - len >= additional;
\* otherwise the capacity becomes next_power_of_two(len + additional) (when
\* that much can be allocated), or the maximum usize value when len +
\* additional or its rounding is not representable; elements and length are
\* unchanged and without saturation capacity - len >= additional afterwards.
C12_Reserve ==
    [][StepOf("reserve") =>
        LET additional == last'.args[1]
            rounded == checked_next_power_of_two(checked_add(Length, additional))
        IN  IF Capacity - Length >= additional
            THEN ~last'.panic /\ Untouched
            ELSE IF rounded # None
            THEN ~last'.panic =>
                   /\ Capacity' = rounded
                   /\ Contents' = Contents
                   /\ Capacity' - Length' >= additional
            ELSE /\ ~last'.panic
                 /\ Capacity' = UsizeMax
                 /\ Contents' = Contents]_vars

\* C13: reserve_exact(additional) changes nothing when capacity - len >=
\* additional; otherwise the capacity becomes exactly len + additional with the
\* elements and the length unchanged (it panics, container untouched, when
\* that much cannot be allocated); when len + additional overflows usize it
\* panics and leaves the container untouched.
C13_ReserveExact ==
    [][StepOf("reserve_exact") =>
        LET additional == last'.args[1]
        IN  IF Capacity - Length >= additional
            THEN ~last'.panic /\ Untouched
            ELSE IF Length + additional > UsizeMax
            THEN last'.panic /\ Untouched
            ELSE IF Length + additional > IsizeMax
            THEN last'.panic /\ Untouched
            ELSE /\ ~last'.panic /\ ~ub'
                 /\ Capacity' = Length + additional
                 /\ Spilled' /\ data'.tag = "Heap"
                 /\ Contents' = Contents]_vars
C13_Witness ==
    /\ last.op = "reserve_exact" /\ last.panic
    /\ last.args[1] = UsizeMax
    /\ Length = 2 /\ Contents = <<1, 2>>

\* the elements a Drain or IntoIter has not yielded yet, in index order
Remaining ==
    [i \in 1..(it.end - it.cur) |->
        ReadAt(GetBuf(Cur, IF mode = "drain" THEN it.ptr ELSE triple(Cur).ptr),
               it.cur + i - 1)]
Front(q) == SubSeq(q, 1, Len(q) - 1)
DropsGrowBy(set) ==
    \A e \in Elem : drops'[e] = drops[e] + IF e \in set THEN 1 ELSE 0

\* C14: drain() sets the length to zero before anything is yielded and keeps
\* capacity and variant; the Drain hands out the former elements once each,
\* next from the front in ascending order, next_back from the back in
\* descending order, then None; dropping the Drain drops exactly the elements
\* not yet yielded, once each, and the container stays empty throughout.
C14_Drain ==
    [][/\ (mode = "vec" /\ mode' = "drain")
            => /\ Length' = 0 /\ Capacity' = Capacity /\ data'.tag = data.tag
               /\ Remaining' = Contents
               /\ drops' = drops
       /\ (mode = "drain" /\ mode' = "drain" /\ last'.op = "Drain::next")
            => IF Remaining = <<>>
               THEN last'.ret = None /\ Remaining' = <<>> /\ drops' = drops
               ELSE /\ last'.ret = Head(Remaining)
                    /\ Remaining' = Tail(Remaining)
                    /\ DropsGrowBy({Head(Remaining)})
       /\ (mode = "drain" /\ mode' = "drain" /\ last'.op = "Drain::next_back")
            => IF Remaining = <<>>
               THEN last'.ret = None /\ Remaining' = <<>> /\ drops' = drops
               ELSE /\ last'.ret = Remaining[Len(Remaining)]
                    /\ Remaining' = Front(Remaining)
                    /\ DropsGrowBy({Remaining[Len(Remaining)]})
       /\ (mode = "drain" /\ mode' = "vec")
            => DropsGrowBy(Range(Remaining)) /\ Contents' = <<>>
       /\ mode' = "drain"
            => /\ Length' = 0 /\ ~ub'
               /\ \A e \in born : drops'[e] = IF e \in Range(Remaining') THEN 0 ELSE 1]_vars
C14_Witness ==
    /\ mode = "drain" /\ last.op = "Drain::next" /\ last.ret = None
    /\ calls = 0 /\ Cardinality(born) = MaxElems
    /\ it.cur = 2 /\ it.end = 2
    /\ \A e \in born : drops[e] = 1

\* C15: into_iter sets the container's length to zero before iteration; the
\* IntoIter hands out the former elements once each, next from the front in
\* ascending order, next_back from the back in descending order, the two
\* cursors never cross, and dropping the iterator drops exactly the elements
\* not yet yielded, once each (the container inside it drops none).
C15_IntoIter ==
    [][/\ (mode = "vec" /\ mode' = "iter")
            => /\ Length' = 0
               /\ Remaining' = Contents
               /\ drops' = drops
       /\ (mode = "iter" /\ mode' = "iter" /\ last'.op = "IntoIter::next")
            => IF Remaining = <<>>
               THEN last'.ret = None /\ Remaining' = <<>> /\ drops' = drops
               ELSE /\ last'.ret = Head(Remaining)
                    /\ Remaining' = Tail(Remaining)
                    /\ DropsGrowBy({Head(Remaining)})
       /\ (mode = "iter" /\ mode' = "iter" /\ last'.op = "IntoIter::next_back")
            => IF Remaining = <<>>
               THEN last'.ret = None /\ Remaining' = <<>> /\ drops' = drops
               ELSE /\ last'.ret = Remaining[Len(Remaining)]
                    /\ Remaining' = Front(Remaining)
                    /\ DropsGrowBy({Remaining[Len(Remaining)]})
       /\ (mode = "iter" /\ mode' = "dead")
            => DropsGrowBy(Range(Remaining)) /\ ~ub' /\ ~dfree'
       /\ mode' = "iter"
            => /\ Length' = 0 /\ ~ub' /\ it'.cur <= it'.end
               /\ \A e \in born : drops'[e] = IF e \in Range(Remaining') THEN 0 ELSE 1]_vars
C15_Witness ==
    /\ mode = "iter" /\ last.op = "IntoIter::next_back" /\ last.ret = MaxElems
    /\ calls = 0 /\ Cardinality(born) = MaxElems
    /\ it.cur = 1 /\ it.end = MaxElems - 1
    /\ drops[1] = 1 /\ drops[2] = 0

\* C16: retain leaves exactly the elements the predicate accepted, in their
\* original relative order, calls the predicate once per original element in
\* index order, and drops each rejected element (once), on inline and spilled
\* containers alike; capacity and variant are unchanged.
C16_Retain ==
    [][StepOf("retain") =>
        LET Kept(e) == e \in last'.args[1]
        IN  /\ ~last'.panic /\ ~ub'
            /\ Contents' = SelectSeq(Contents, Kept)
            /\ last'.log = Contents
            /\ DropsGrowBy(Range(Contents) \ last'.args[1])
            /\ Capacity' = Capacity /\ data'.tag = data.tag]_vars
C16_Witness ==
    /\ last.op = "retain" /\ last.args[1] = {2, 4}
    /\ last.log = <<1, 2, 3, 4>>
    /\ Contents = <<2, 4>>
    /\ drops[1] = 1 /\ drops[3] = 1

\* dedup_by called on a container as built: every length, capacity and
\* storage variant, with every relation the closure can compute
DedupFirst == calls = 0 /\ DedupBy
NextDedup == DedupFirst
SpecDedup == Init /\ [][NextDedup]_vars

RECURSIVE FirstOfRuns(_, _, _, _)
\* q[1..i-1] has been reduced to kept; each further element stays unless the
\* relation puts it in the bucket of the last element kept
FirstOfRuns(q, same, i, kept) ==
    IF i > Len(q) THEN kept
    ELSE IF <<q[i], kept[Len(kept)]>> \in same
    THEN FirstOfRuns(q, same, i + 1, kept)
    ELSE FirstOfRuns(q, same, i + 1, Append(kept, q[i]))

\* C17: dedup_by keeps the first element of each maximal run of consecutive
\* elements the relation considers equal, each element being compared with the
\* last element kept, removes (and drops) the others and preserves the order;
\* a container of length 0 or 1 is left untouched.
C17_DedupBy ==
    [][StepOf("dedup_by") =>
        /\ ~last'.panic /\ ~ub'
        /\ IF Length <= 1 THEN Untouched /\ last'.log = <<>>
           ELSE /\ Contents' = FirstOfRuns(Contents, last'.args[1], 2,
                                           <<Contents[1]>>)
                /\ DropsGrowBy(Range(Contents) \ Range(Contents'))
                /\ Capacity' = Capacity /\ data'.tag = data.tag]_vars
C17_Witness ==
    /\ last.op = "dedup_by" /\ last.args[1] = {<<2, 1>>, <<3, 2>>, <<4, 3>>}
    /\ calls = 1
    /\ Contents = <<1, 3>>
    /\ drops[2] = 1 /\ drops[4] = 1

\* C18: for index <= len, insert(index, v) yields s[..index] ++ [v] ++
\* s[index..] (unless the larger buffer cannot be allocated); a remove(index)
\* right after it returns v and leaves the sequence without it, which is s
\* again: for an insert made as the first call on a container built from
\* 1, .., n that is 1, .., n, whether or not the insert spilled.
C18_InsertRemove ==
    [][/\ (StepOf("insert") /\ last'.args[1] <= Length /\ ~last'.panic)
            => /\ ~ub'
               /\ Contents' = SubSeq(Contents, 1, last'.args[1])
                                \o <<last'.args[2]>>
                                \o SubSeq(Contents, last'.args[1] + 1, Length)
       /\ (/\ last.op = "insert" /\ ~last.panic
           /\ StepOf("remove") /\ last'.args[1] = last.args[1])
            => /\ ~ub' /\ ~last'.panic
               /\ last'.ret = last.args[2]
               /\ Contents' = SubSeq(Contents, 1, last.args[1])
                                \o SubSeq(Contents, last.args[1] + 2, Length)
               /\ calls = 1 =>
                    Contents' = [k \in 1..(Cardinality(born) - 1) |-> k]
               /\ Capacity' = Capacity /\ data'.tag = data.tag]_vars
C18_Witness ==
    /\ last.op = "remove" /\ last.args[1] = 1 /\ last.ret = 3
    /\ calls = 2 /\ born = {1, 2, 3}
    /\ N = 2 /\ Spilled /\ capacity = 4
    /\ Contents = <<1, 2>>

\* containers of every shape turned into a Vec and back
NextVec == IntoVec \/ FromVec \/ Push \/ Pop
SpecVec == Init /\ [][NextVec]_vars

\* the elements of the Vec the caller holds after into_vec
VecElems ==
    [i \in 1..it.len |->
        IF it.ptr = 0 THEN Uninit ELSE ReadAt(mem[it.ptr].slots, i - 1)]

\* C19: into_vec yields a Vec with the container's elements in order; a
\* spilled container hands over its own heap buffer, with the same length and
\* capacity, nothing copied or allocated; from_vec of that Vec gives a
\* container with the same sequence again (1, .., n when the round trip is
\* made first thing on a container built from 1, .., n); no element is dropped
\* on the way.
C19_IntoVecFromVec ==
    [][/\ (mode = "vec" /\ mode' = "moved")
            => /\ ~ub' /\ drops' = drops
               /\ VecElems' = Contents
               /\ Spilled => /\ it'.ptr = data.ptr
                             /\ it'.len = Length /\ it'.cap = Capacity
                             /\ mem' = mem
       /\ (mode = "moved" /\ mode' = "vec")
            => /\ ~ub' /\ drops' = drops
               /\ Intact'
               /\ Contents' = VecElems
               /\ calls = 1 => Contents' = [k \in 1..Cardinality(born) |-> k]
               /\ \A p \in 1..MaxAllocs :
                    mem'[p].live => (data'.tag = "Heap" /\ data'.ptr = p)]_vars
C19_Witness ==
    /\ mode = "vec" /\ last.op = "from_vec" /\ calls = 2
    /\ N = 1 /\ Spilled /\ capacity = 3
    /\ Contents = <<1, 2, 3>>

\* C20: an index out of bounds makes the call panic instead of being clamped:
\* insert and insert_many with index > len, remove and swap_remove with
\* index >= len (also on an empty container); the elements stay as they were,
\* none is returned or dropped.
C20_IndexOutOfBounds ==
    [][(\/ (StepOf("insert") \/ StepOf("insert_many")) /\ last'.args[1] > Length
        \/ (StepOf("remove") \/ StepOf("swap_remove")) /\ last'.args[1] >= Length)
       => /\ last'.panic /\ ~ub'
          /\ last'.ret = None
          /\ Contents' = Contents
          /\ drops' = drops]_vars
C20_Witness ==
    /\ last.op = "swap_remove" /\ last.panic /\ last.args[1] = 0
    /\ calls = 2 /\ Cardinality(born) = 1
    /\ Contents = <<>>

\* C21: grow(new_cap) with new_cap smaller than the current length panics and
\* leaves the elements, the length, the capacity and the storage variant (and
\* the heap) as they were.
C21_GrowBelowLen ==
    [][(StepOf("grow") /\ last'.args[1] < Length)
       => /\ last'.panic /\ ~ub'
          /\ Untouched
          /\ Contents' = Contents /\ Length' = Length
          /\ Capacity' = Capacity /\ data'.tag = data.tag]_vars
C21_Witness ==
    /\ last.op = "grow" /\ last.panic /\ last.args[1] = 3
    /\ calls = 2 /\ Spilled /\ data.tag = "Heap"
    /\ Contents = <<1, 2, 3, 4>>

\* truncate(n) has cut the contents down to their first n elements
TruncatedTo(n) ==
    /\ ~last'.panic /\ ~ub'
    /\ IF n >= Length THEN Untouched
       ELSE /\ Contents' = SubSeq(Contents, 1, n)
            /\ Length' = n
            /\ DropsGrowBy({ Contents[i] : i \in (n + 1)..Length })
    /\ Capacity' = Capacity /\ Spilled' = Spilled /\ data'.tag = data.tag
    /\ Spilled => data'.ptr = data.ptr /\ mem'[data.ptr].live

\* C22: truncate(n) changes nothing when n >= len; otherwise it drops exactly
\* the elements at the indices [n, len), once each, leaves the first n elements
\* in place and in order and sets the length to n; it never changes capacity()
\* or the storage variant; clear() does what truncate(0) does.
C22_Truncate ==
    [][/\ StepOf("truncate") => TruncatedTo(last'.args[1])
       /\ StepOf("clear") => TruncatedTo(0)]_vars
C22_Witness ==
    /\ last.op = "truncate" /\ last.args[1] = 1
    /\ calls = 2 /\ Spilled /\ N = 2 /\ capacity = 4
    /\ Contents = <<1>>
    /\ drops[2] = 1 /\ drops[3] = 1 /\ drops[1] = 0

\* C23: pop() on an empty container returns None and changes nothing;
\* otherwise it returns the last element, which it has not dropped (the caller
\* who receives it is the only one to drop it), shortens the length by one and
\* leaves the other elements in place; capacity() and the spilled state stay as
\* they were, also when the length falls to or below the inline capacity.
C23_Pop ==
    [][StepOf("pop") =>
        /\ ~last'.panic /\ ~ub'
        /\ IF Length = 0
           THEN last'.ret = None /\ Untouched
           ELSE /\ last'.ret = Contents[Length]
                /\ Contents' = Front(Contents)
                /\ Length' = Length - 1
                /\ DropsGrowBy({Contents[Length]})
                /\ drops'[Contents[Length]] = 1
        /\ Capacity' = Capacity /\ Spilled' = Spilled /\ data'.tag = data.tag]_vars
C23_Witness ==
    /\ last.op = "pop" /\ last.ret = 2 /\ last.was
    /\ calls = 2 /\ N = 2 /\ Spilled /\ capacity = 3
    /\ Contents = <<1>>

\* C24: for index < len, swap_remove(index) returns the element that was at
\* index, puts the element that was last at position index (unless index was
\* the last position), shortens the length by one and leaves every other
\* element at its position.
C24_SwapRemove ==
    [][(StepOf("swap_remove") /\ last'.args[1] < Length) =>
        LET index == last'.args[1]
        IN  /\ ~last'.panic /\ ~ub'
            /\ last'.ret = Contents[index + 1]
            /\ Length' = Length - 1
            /\ Contents' = [k \in 1..(Length - 1) |->
                              IF k = index + 1 THEN Contents[Length]
                              ELSE Contents[k]]
            /\ DropsGrowBy({Contents[index + 1]})]_vars
C24_Witness ==
    /\ last.op = "swap_remove" /\ last.args[1] = 0 /\ last.ret = 1
    /\ calls = 1 /\ Spilled /\ N = 2
    /\ Contents = <<4, 2, 3>>

\* the container clone() returned, next to the source on the same heap
TheClone == [Cur EXCEPT !.capacity = it.capacity, !.data = it.data]

\* C25: clone() yields a fresh container with an equal element sequence and
\* leaves the source as it was; the clone is sized to the source's length
\* whatever the source's capacity: it is spilled iff the length exceeds the
\* inline capacity, and its capacity is max(len, inline capacity).
C25_Clone ==
    [][StepOf("clone") =>
        /\ ~last'.panic /\ ~ub'
        /\ UNCHANGED <<capacity, data, drops>>
        /\ Contents' = Contents
        /\ Spilled => mem'[data.ptr] = mem[data.ptr]
        /\ Sound(TheClone')
        /\ Elems(TheClone') = Contents
        /\ spilled(TheClone') <=> Length > N
        /\ triple(TheClone').cap = Max(Length, N)
        /\ spilled(TheClone') =>
              /\ it'.data.tag = "Heap"
              /\ ~mem[it'.data.ptr].live
              /\ Spilled => it'.data.ptr # data.ptr]_vars
C25_Witness ==
    /\ mode = "cloned" /\ last.op = "clone" /\ calls = 1
    /\ N = 2 /\ Spilled /\ capacity = 4 /\ Contents = <<1, 2>>
    /\ it.data.tag = "Inline" /\ it.capacity = 2
    /\ Elems(TheClone) = <<1, 2>>

\* C26: into_inner returns Ok(the array holding the elements) exactly when
\* the container is not spilled and its length equals the inline capacity; in
\* every other case (too short, or spilled, also with length equal to the
\* inline capacity) it returns Err with the container, its elements unchanged.
C26_IntoInner ==
    [][StepOf("into_inner") =>
        /\ ~last'.panic /\ ~ub' /\ drops' = drops
        /\ IF ~Spilled /\ Length = N
           THEN mode' = "array" /\ it' = Contents
           ELSE /\ mode' = "vec"
                /\ Untouched
                /\ Contents' = Contents /\ Spilled' = Spilled]_vars
C26_Witness ==
    /\ mode = "array" /\ last.op = "into_inner" /\ calls = 2
    /\ N = 2 /\ it = <<1, 2>>

\* C27: from_vec(v) holds exactly v's elements in order and v's length; it
\* copies them into the inline buffer, is not spilled and releases v's buffer
\* iff v's capacity is <= the inline capacity; otherwise it adopts v's buffer:
\* it is spilled with capacity() equal to v's capacity.
C27_FromVec ==
    /\ [](calls = 0 =>
            LET n == last.args[1]
                c == last.args[2]
            IN  /\ ~ub /\ Contents = [k \in 1..n |-> k] /\ Length = n
                /\ IF c <= N
                   THEN /\ ~Spilled /\ data.tag = "Inline"
                        /\ \A p \in 1..MaxAllocs : ~mem[p].live
                   ELSE /\ Spilled /\ data.tag = "Heap" /\ Capacity = c
                        /\ data.ptr = 1 /\ mem[1].live /\ mem[1].cap = c)
    /\ [][(mode = "moved" /\ mode' = "vec") =>
            /\ ~ub' /\ drops' = drops
            /\ Contents' = VecElems /\ Length' = it.len
            /\ IF it.cap <= N
               THEN /\ ~Spilled' /\ data'.tag = "Inline"
                    /\ \A p \in 1..MaxAllocs : ~mem'[p].live
               ELSE /\ Spilled' /\ data'.tag = "Heap" /\ Capacity' = it.cap
                    /\ data'.ptr = it.ptr /\ mem' = mem]_vars
C27_Witness ==
    /\ calls = 0 /\ last.op = "from_vec" /\ last.args = <<2, 3>>
    /\ N = 2 /\ Spilled /\ capacity = 3 /\ data.ptr = 1
    /\ Contents = <<1, 2>>

\* C28: with_capacity(n) returns an empty container with capacity() >= n and
\* allocates on the heap only if n is larger than the inline capacity: for
\* n <= inline capacity it is not spilled and its capacity is the inline
\* capacity, otherwise it is spilled with capacity exactly n (it panics, no
\* container made, only when n slots cannot be allocated); pushes within the
\* capacity do not re-allocate.
C28_WithCapacity ==
    /\ [](calls = 0 =>
            LET n == last.args[1]
            IN  /\ ~ub
                /\ last.panic <=> (n > N /\ n > IsizeMax)
                /\ last.panic => \A p \in 1..MaxAllocs : ~mem[p].live
                /\ ~last.panic =>
                     /\ Length = 0 /\ Contents = <<>> /\ Capacity >= n
                     /\ IF n <= N
                        THEN /\ ~Spilled /\ data.tag = "Inline" /\ Capacity = N
                             /\ \A p \in 1..MaxAllocs : ~mem[p].live
                        ELSE /\ Spilled /\ data.tag = "Heap" /\ Capacity = n
                             /\ mem[data.ptr].live /\ mem[data.ptr].cap = n)
    /\ [][(StepOf("push") /\ Length < Capacity)
            => /\ Capacity' = Capacity /\ data'.tag = data.tag
               /\ Spilled => data'.ptr = data.ptr]_vars
C28_Witness ==
    /\ calls = 2 /\ last.op = "push" /\ N = 2
    /\ Spilled /\ capacity = 3 /\ data.tag = "Heap"
    /\ Contents = <<1, 2>>

\* C29: grow(new_cap) on a spilled container with new_cap equal to its heap
\* capacity is a no-op: the heap buffer is neither re-allocated nor released,
\* pointer, length, capacity and elements are unchanged, and the container
\* remains usable.
C29_GrowSameCapacity ==
    [][(StepOf("grow") /\ Spilled /\ last'.args[1] = Capacity)
       => /\ ~last'.panic /\ ~ub' /\ ~dfree'
          /\ Untouched
          /\ mem'[data.ptr].live
          /\ Contents' = Contents]_vars

\* the number of slots an insertion reserves before it checks the index
Reserved ==
    IF last'.op = "insert" THEN 1
    ELSE IF last'.op = "insert_many" THEN last'.args[2].hint
    ELSE Len(last'.args[2])
InsertionFails ==
    /\ StepOf("insert") \/ StepOf("insert_many") \/ StepOf("insert_from_slice")
    /\ last'.args[1] > Length

\* C30 as stated: when insert, insert_many or insert_from_slice fails because
\* index > len, the container is left exactly as it was before the call: same
\* elements, same length, same capacity and same storage variant.
C30_FailedInsertChangesNothing ==
    [][InsertionFails
       => /\ last'.panic /\ ~ub'
          /\ Contents' = Contents /\ Length' = Length
          /\ Capacity' = Capacity /\ Spilled' = Spilled
          /\ data'.tag = data.tag]_vars

\* C30, amended: when insert, insert_many or insert_from_slice fails because
\* index > len, the elements and the length are as before the call and none of
\* the elements was dropped; the room for the new items is reserved before the
\* index is checked, so the capacity is as before only if it already had that
\* room, and otherwise it has grown (spilling an inline container) unless the
\* reservation itself failed.
C30_FailedInsertKeepsElements ==
    [][InsertionFails
       => /\ last'.panic /\ ~ub'
          /\ Contents' = Contents /\ Length' = Length
          /\ \A e \in Range(Contents) : drops'[e] = 0
          /\ IF Capacity - Length >= Reserved \/ reserve(Cur, Reserved).panic
             THEN Untouched
             ELSE /\ Capacity' >= Length + Reserved
                  /\ Capacity' > Capacity
                  /\ Spilled' /\ data'.tag = "Heap"]_vars
C30_Witness ==
    /\ last.op = "insert" /\ last.panic /\ last.args[1] = 3
    /\ calls = 1 /\ N = 2 /\ ~last.was
    /\ Spilled /\ capacity = 4
    /\ Contents = <<1, 2>>

\* C31: if the predicate passed to retain or the relation passed to dedup_by
\* panics at any step, the container is intact: the length is unchanged and
\* the container holds a permutation of its original elements, each exactly
\* once and none dropped, so that destroying the container afterwards drops
\* every element exactly once.
C31_ClosurePanics ==
    [][/\ ((StepOf("retain") \/ StepOf("dedup_by")) /\ last'.panic)
            => /\ ~ub' /\ Intact'
               /\ Length' = Length
               /\ Range(Contents') = Range(Contents)
               /\ \A i, j \in 1..Length : Contents'[i] = Contents'[j] => i = j
               /\ drops' = drops
               /\ Capacity' = Capacity /\ data'.tag = data.tag
       /\ (last.op \in {"retain", "dedup_by"} /\ last.panic /\ StepOf("drop"))
            => /\ ~ub' /\ ~dfree'
               /\ \A e \in born : drops'[e] = 1
               /\ \A p \in 1..MaxAllocs : ~mem'[p].live]_vars
C31_Witness ==
    /\ last.op = "retain" /\ last.panic /\ last.args = <<{2}, 3>>
    /\ last.log = <<1, 2, 3>>
    /\ Contents = <<2, 1, 3, 4>>
    /\ \A e \in born : drops[e] = 0

\* the position in the contents of the element whose destructor panics in the
\* call just made (its last argument)
BombIndex ==
    CHOOSE i \in 1..Length : Contents[i] = last'.args[Len(last'.args)]

\* C32: when an element's destructor panics during truncate or clear, the
\* length is already below that element's index: the container keeps exactly
\* the elements in front of it, none of them dropped, and the failing element
\* and those behind it were destroyed once; destroying the container
\* afterwards, or a destructor panicking during that destruction, destroys no
\* element a second time.
C32_DestructorPanics ==
    [][/\ ((StepOf("truncate") \/ StepOf("clear")) /\ last'.panic)
            => /\ ~ub'
               /\ Length' = BombIndex - 1
               /\ Contents' = SubSeq(Contents, 1, BombIndex - 1)
               /\ DropsGrowBy({ Contents[i] : i \in BombIndex..Length })
               /\ \A e \in Elem : drops'[e] <= 1
       /\ StepOf("drop")
            => /\ ~ub' /\ ~dfree'
               /\ DropsGrowBy(Range(Contents))
               /\ \A e \in born : drops'[e] = 1]_vars
C32_Witness ==
    /\ last.op = "truncate" /\ last.panic /\ last.args = <<1, 3>>
    /\ Spilled /\ Contents = <<1, 2>>
    /\ drops[4] = 1 /\ drops[3] = 1 /\ drops[2] = 0 /\ drops[1] = 0

\* C33: for every container s and every iterable that yields items t without
\* failing, whatever lower bound its size hint reports (accurate, too small or
\* too large), extend (and insert_many at index = len, which is extend) leaves
\* s ++ t, of length |s| + |t|: a slot reserved for the hint but not written
\* is not counted. The call returns whenever a buffer for the rounded
\* len + max(hint, |t|) can be allocated.
C33_Extend ==
    [][(/\ StepOf("extend") \/ (StepOf("insert_many") /\ last'.args[1] = Length)
        /\ last'.args[Len(last'.args)].fail = None)
       => LET iter == last'.args[Len(last'.args)]
              need == checked_next_power_of_two(
                          Length + Max(iter.hint, Len(iter.items)))
          IN  /\ ~ub'
              /\ (need # None /\ need <= IsizeMax) => ~last'.panic
              /\ ~last'.panic =>
                   /\ Contents' = Contents \o iter.items
                   /\ Length' = Length + Len(iter.items)
                   /\ Length' <= Capacity'
                   /\ drops' = drops]_vars
C33_Witness ==
    /\ last.op = "extend" /\ ~last.panic
    /\ last.args[1] = [items |-> <<2, 3>>, hint |-> 3, fail |-> None]
    /\ N = 2 /\ Spilled /\ capacity = 4
    /\ Contents = <<1, 2, 3>>

\* C34: push_light refines push: starting from containers with the same
\* elements and the same storage variant (whatever their capacities), and as
\* long as both calls return, appending the same values with push_light and
\* with push gives the same element sequence (the old one with the value
\* behind it), the same length and the same spilled state after each step;
\* only the heap capacity may differ, and both keep length <= capacity.
C34_PushLightRefinesPush ==
    /\ [](mode = "vec" =>
            /\ ~ub /\ ~it.ub /\ ~dfree /\ ~it.dfree
            /\ Intact /\ Sound(Twin)
            /\ Contents = Elems(Twin)
            /\ Length = len(Twin)
            /\ Spilled <=> spilled(Twin)
            /\ Length <= Capacity
            /\ len(Twin) <= triple(Twin).cap)
    /\ [][mode' = "vec" => Contents' = Append(Contents, last'.args[1])]_vars
C34_Witness ==
    /\ mode = "vec" /\ last.op = "push_light" /\ N = 2
    /\ capacity = 6 /\ it.capacity = 4
    /\ Contents = <<1, 2, 3, 4>> /\ Elems(Twin) = <<1, 2, 3, 4>>
====
